---- MODULE Spec2Model ----
(***************************************************************************)
(* Model of the delegate HTTP client (src/delegate/http.go): the five      *)
(* protocol operations, the request executor `do`, the retry loop `retry`  *)
(* and the context-bound exponential backoff built by createBackoff.       *)
(* One call of one operation is modelled from its start to its return,     *)
(* together with its environment: the caller's context (cancel, deadline), *)
(* the credential supplier, the server and the clock.                      *)
(***************************************************************************)
EXTENDS Integers, Sequences, FiniteSets, TLC

\* ------------------------------------------------------------------ bounds
\* Time is counted in abstract ticks.  The two ceilings keep the order of the
\* source (registerTimeout < taskEventsTimeout); the intervals of the
\* exponential backoff are scaled to the same ticks.
registerTimeout == 2
taskEventsTimeout == 3
InitialInterval == 1
MaxInterval == 3
MaxDoTime == 1
\* Counters saturate at MaxCount; the ceilings keep every call below it.
MaxCount == 6
\* The server's count of processed requests saturates at MaxApplied.
MaxApplied == 2

\* backoff.Stop: the value NextBackOff returns when no retry is to be made.
Stop == -1

\* ------------------------------------------------------------------ values
Ops == {"Register", "Heartbeat", "GetTaskEvents", "Acquire", "SendStatus"}

\* The status codes a response can carry: both sides of every comparison the
\* code makes (204, > 299, > 501).
Statuses == {200, 204, 404, 500, 501, 502}

\* Response bodies: empty, a plain text, a JSON document, and a body whose
\* read fails (io.ReadAll returns an error).
JsonBody == "{\"id\":\"42\"}"
ReadFail == "<read error>"
Bodies == {"", "boom", JsonBody, ReadFail}

\* res == nil
NoRes == [status |-> 0, body |-> ""]
Responses == [status : Statuses, body : Bodies]

CtxErrs == {"context canceled", "context deadline exceeded"}

\* The tokens the credential supplier hands out, before and after a rotation.
Tokens == {"t1", "t2"}

\* No request in flight, hence no header.
NoHeader == <<>>

\* The goroutines that call Register or SendStatus on one HTTPClient at the
\* same time.
Calls == {"c1", "c2"}

\* The b of a call that has not called createBackoff yet.
NoSession == 0

\* A call that has not started.
IdleCall == [op |-> "Register", pc |-> "idle", ctxErr |-> "nil",
             b |-> NoSession, res |-> NoRes, err |-> "nil", duration |-> 0,
             sleepLeft |-> 0, inDo |-> 0]

\* What an attempt of a concurrent call can end with: a response that ends
\* the call, a response that is retried, or no response at all.
ConcResponses == {[status |-> 200, body |-> ""], [status |-> 502, body |-> ""],
                  NoRes}

VARIABLES
    op,              \* the operation called
    endpointOk,      \* p.Endpoint + path parses as a URL (http.NewRequest succeeds)
    pc,              \* position of the call
    ctxErr,          \* ctx.Err(): "nil" or the cancellation reason
    clock,           \* time.Now(), in ticks since createBackoff
    res,             \* res of the last p.do
    err,             \* err of the last p.do
    out,             \* the value behind the out pointer
    duration,        \* duration of retry (line 129)
    currentInterval, \* ExponentialBackOff.currentInterval
    sleepLeft,       \* what is left of the running time.Sleep
    attempts,        \* invocations of p.do
    sends,           \* invocations of p.Client.Do
    sleeps,          \* invocations of time.Sleep
    applied,         \* times the server processed the request of this call
    ret,             \* what the call returned: [res, err], meaningful at "done"
    retLine,         \* the source line of the return statement taken (0: none yet)
    first,           \* status of the first response of the call (0: none yet)
    cancelAt,        \* position of the call when its context was cancelled
    bodyOpen,        \* response bodies received and not closed
    token,           \* the token AccountTokenCache.Get returns now
    tokenFetches,    \* invocations of AccountTokenCache.Get
    authHeader,      \* Authorization header of the request in flight
    reqBody,         \* body of the request in flight
    calls,           \* the resilient calls of concurrent callers, by caller
    sessions         \* the backoff objects createBackoff has made, in order

\* The state of the call followed step by step.
callVars == <<op, endpointOk, pc, ctxErr, clock, res, err, out, duration,
              currentInterval, sleepLeft, attempts, sends, sleeps, applied,
              ret, retLine, first, cancelAt, bodyOpen, token, tokenFetches,
              authHeader, reqBody>>

\* The state of the calls that run side by side.
concVars == <<calls, sessions>>

vars == <<callVars, concVars>>

\* ------------------------------------------------------------ the executor
\* Resilient with Heartbeat routed through retry as well.
ResilientWithHeartbeat(o) == o \in {"Register", "SendStatus", "Heartbeat"}

\* Register and SendStatus go through retry; the others call do directly.
Resilient(o) == o \in {"Register", "SendStatus"}

\* The out argument of do: nil for Heartbeat and SendStatus.
HasOut(o) == o \in {"Register", "GetTaskEvents", "Acquire"}

\* The in argument of do: nil for GetTaskEvents and Acquire.
HasIn(o) == o \in {"Register", "Heartbeat", "SendStatus"}

\* The buffer handed to http.NewRequest (lines 159-170): the JSON encoding
\* of the input, or nothing when there is no input or its encoding failed.
EncodedBody(hasIn, encOk) == IF hasIn /\ encOk THEN "json" ELSE ""

\* AfterEncode returning from do when the encoding failed.
AfterEncodeReturn(encOk) == IF encOk THEN "send" ELSE "return"

\* Lines 163-167: a failed encoding is logged and do goes on.
AfterEncode(encOk) == "send"

\* HeaderToken with the token the client saw first, kept for later requests.
HeaderTokenStale(t) == <<"Delegate ", "t1">>

\* Line 183: the Authorization header for the token just fetched.
HeaderToken(t) == <<"Delegate ", t>>

\* DeferredCloses closing the body on the success paths only.
DeferredClosesOnSuccess(r) == IF r.status > 299 THEN 0 ELSE 1

\* Lines 186-195: the deferred function drains at most 4096 bytes of the
\* body and closes it, once, whatever return do takes after Client.Do.
DeferredCloses(r) == 1

\* The maxElapsedTime handed to createBackoff.
Ceiling(o) == IF o = "Register" THEN registerTimeout ELSE taskEventsTimeout

\* http.StatusText: the reason phrase of a status code.
StatusText(c) ==
    CASE c = 200 -> "OK"
      [] c = 204 -> "No Content"
      [] c = 404 -> "Not Found"
      [] c = 500 -> "Internal Server Error"
      [] c = 501 -> "Not Implemented"
      [] c = 502 -> "Bad Gateway"
      [] c = 503 -> "Service Unavailable"
      [] OTHER -> ""

\* json.Unmarshal(body, out): the error it returns ("nil" when it decodes).
UnmarshalErr(body) ==
    CASE body = JsonBody -> "nil"
      [] body = "" -> "unexpected end of JSON input"
      [] OTHER -> "invalid character"

\* json.Unmarshal(body, out): the value behind out afterwards.
UnmarshalOut(body, old) == IF body = JsonBody THEN "42" ELSE old

\* DoErr without the 204 short-circuit of lines 203-205.
DoErrNo204(r, hasOut) ==
    IF r.body = ReadFail THEN "read error"
    ELSE IF r.status > 299
         THEN (IF r.body # "" THEN r.body ELSE StatusText(r.status))
    ELSE IF ~hasOut THEN "nil"
    ELSE UnmarshalErr(r.body)

\* DoErr always answering a status above 299 with its reason phrase.
DoErrReasonOnly(r, hasOut) ==
    IF r.status = 204 THEN "nil"
    ELSE IF r.body = ReadFail THEN "read error"
    ELSE IF r.status > 299 THEN StatusText(r.status)
    ELSE IF ~hasOut THEN "nil"
    ELSE UnmarshalErr(r.body)

\* The error do returns once Client.Do has answered with response r
\* (lines 200-230).
DoErr(r, hasOut) ==
    IF r.status = 204 THEN "nil"
    ELSE IF r.body = ReadFail THEN "read error"
    ELSE IF r.status > 299
         THEN (IF r.body # "" THEN r.body ELSE StatusText(r.status))
    ELSE IF ~hasOut THEN "nil"
    ELSE UnmarshalErr(r.body)

\* DoOut without the 204 short-circuit of lines 203-205.
DoOutDecode204(r, hasOut, old) ==
    IF r.body = ReadFail \/ r.status > 299 \/ ~hasOut
    THEN old
    ELSE UnmarshalOut(r.body, old)

\* The value behind out once do has returned for response r.
DoOut(r, hasOut, old) ==
    IF r.status = 204 \/ r.body = ReadFail \/ r.status > 299 \/ ~hasOut
    THEN old
    ELSE UnmarshalOut(r.body, old)

\* ------------------------------------------------------------- the backoff
\* getRandomValueFromInterval with the default randomization factor 0.5.
RandomInterval(cur) == (cur - cur \div 2) .. (cur + cur \div 2)

\* incrementCurrentInterval with the default multiplier 1.5.
IncrementCurrentInterval(cur) ==
    IF 3 * cur >= 2 * MaxInterval THEN MaxInterval ELSE (3 * cur + 1) \div 2

\* ExpNextBackOff without the test of the elapsed time against the ceiling.
ExpNextBackOffNoCeiling(now, n, ceiling) == n

\* ExponentialBackOff.NextBackOff for the random value n: Stop once the
\* elapsed time plus the next interval passes a non-zero ceiling.
ExpNextBackOff(now, n, ceiling) ==
    IF ceiling # 0 /\ now + n > ceiling THEN Stop ELSE n

\* ---------------------------------------------------------- the retry loop
\* Decision with the threshold one status too high: 502 is no longer retried.
DecisionAbove502(r, e, d) ==
    IF r # NoRes
    THEN IF r.status > 502
         THEN (IF d = Stop THEN "stop" ELSE "sleep")
         ELSE "return"
    ELSE IF e # "nil"
         THEN (IF d = Stop THEN "stop" ELSE "sleep")
         ELSE "return"

\* Decision retrying the whole 5xx range, 500 and 501 included.
DecisionAbove499(r, e, d) ==
    IF r # NoRes
    THEN IF r.status > 499
         THEN (IF d = Stop THEN "stop" ELSE "sleep")
         ELSE "return"
    ELSE IF e # "nil"
         THEN (IF d = Stop THEN "stop" ELSE "sleep")
         ELSE "return"

\* Decision without the else-branch of lines 144-151: an error without a
\* response is returned instead of retried.
DecisionResponseOnly(r, e, d) ==
    IF r # NoRes /\ r.status > 501
    THEN (IF d = Stop THEN "stop" ELSE "sleep")
    ELSE "return"

\* Decision without the tests of duration == backoff.Stop (lines 138, 146).
DecisionIgnoreStop(r, e, d) ==
    IF r # NoRes
    THEN IF r.status > 501 THEN "sleep" ELSE "return"
    ELSE IF e # "nil" THEN "sleep" ELSE "return"

\* Lines 131-152 of retry: what the loop does with (res, err, duration).
Decision(r, e, d) ==
    IF r # NoRes
    THEN IF r.status > 501
         THEN (IF d = Stop THEN "stop" ELSE "sleep")
         ELSE "return"
    ELSE IF e # "nil"
         THEN (IF d = Stop THEN "stop" ELSE "sleep")
         ELSE "return"

\* CtxDone seeing an explicit cancel only, not a passed deadline.
CtxDoneCanceledOnly(c) == c = "context canceled"

\* Line 124: ctx.Err() != nil.
CtxDone(c) == c # "nil"

\* ------------------------------------------------------------------ state
Inc(x) == IF x < MaxCount THEN x + 1 ELSE x

Init ==
    /\ op \in Ops
    /\ endpointOk \in BOOLEAN
    /\ pc = "call"
    /\ ctxErr = "nil"
    /\ clock = 0
    /\ res = NoRes
    /\ err = "nil"
    /\ out = "zero"
    /\ duration = 0
    /\ currentInterval = InitialInterval
    /\ sleepLeft = 0
    /\ attempts = 0
    /\ sends = 0
    /\ sleeps = 0
    /\ applied = 0
    /\ ret = [res |-> NoRes, err |-> "nil"]
    /\ retLine = 0
    /\ first = 0
    /\ cancelAt = "never"
    /\ bodyOpen = 0
    /\ token = "t1"
    /\ tokenFetches = 0
    /\ authHeader = NoHeader
    /\ reqBody = ""
    /\ calls = [i \in Calls |-> IdleCall]
    /\ sessions = <<>>

\* do returns (r, e): retry goes on to its context check (line 124), the
\* other operations return e to their caller (lines 92, 100, 108).
DoReturns(r, e) ==
    /\ res' = r
    /\ err' = e
    /\ IF Resilient(op)
       THEN /\ pc' = "check"
            /\ UNCHANGED <<ret, retLine>>
       ELSE /\ pc' = "done"
            /\ ret' = [res |-> r, err |-> e]
            /\ retLine' = CASE op = "Heartbeat" -> 93
                            [] op = "GetTaskEvents" -> 101
                            [] OTHER -> 109

\* do, lines 159-173: http.NewRequest rejects the endpoint.
DoBadRequest ==
    /\ pc = "call"
    /\ ~endpointOk
    /\ attempts' = Inc(attempts)
    /\ DoReturns(NoRes, "invalid URL")
    /\ UNCHANGED <<op, endpointOk, cancelAt, ctxErr, clock, out, duration,
                   currentInterval, sleepLeft, sends, sleeps, applied, first,
                   bodyOpen, token, tokenFetches, authHeader, reqBody>>
    /\ UNCHANGED concVars

\* DoTokenFail with the request sent before the token error is returned.
DoTokenFailAfterSend ==
    /\ pc = "call"
    /\ endpointOk
    /\ attempts' = Inc(attempts)
    /\ tokenFetches' = Inc(tokenFetches)
    /\ sends' = Inc(sends)
    /\ DoReturns(NoRes, "credential")
    /\ UNCHANGED <<op, endpointOk, cancelAt, ctxErr, clock, out, duration,
                   currentInterval, sleepLeft, sleeps, applied, first,
                   bodyOpen, token, authHeader, reqBody>>
    /\ UNCHANGED concVars

\* do, lines 178-182: AccountTokenCache.Get fails.
DoTokenFail ==
    /\ pc = "call"
    /\ endpointOk
    /\ attempts' = Inc(attempts)
    /\ tokenFetches' = Inc(tokenFetches)
    /\ DoReturns(NoRes, "credential")
    /\ UNCHANGED <<op, endpointOk, cancelAt, ctxErr, clock, out, duration,
                   currentInterval, sleepLeft, sends, sleeps, applied, first,
                   bodyOpen, token, authHeader, reqBody>>
    /\ UNCHANGED concVars

\* do, lines 159-185: the input is encoded, the request is built, the token
\* is fetched and Client.Do sends the request.
DoSend ==
    /\ pc = "call"
    /\ endpointOk
    /\ attempts' = Inc(attempts)
    /\ \E encOk \in BOOLEAN :
          /\ ~HasIn(op) => encOk
          /\ IF AfterEncode(encOk) = "send"
             THEN /\ tokenFetches' = Inc(tokenFetches)
                  /\ authHeader' = HeaderToken(token)
                  /\ reqBody' = EncodedBody(HasIn(op), encOk)
                  /\ sends' = Inc(sends)
                  /\ pc' = "sent"
                  /\ UNCHANGED <<res, err, ret, retLine>>
             ELSE /\ DoReturns(NoRes, "encode error")
                  /\ UNCHANGED <<tokenFetches, authHeader, reqBody, sends>>
    /\ UNCHANGED <<op, endpointOk, cancelAt, ctxErr, clock, out, duration,
                   currentInterval, sleepLeft, sleeps, applied, first,
                   bodyOpen, token>>
    /\ UNCHANGED concVars

\* Client.Do returns an error and no response after dt ticks (lines 185-198);
\* the server may or may not have processed the request before that.
DoTransportError ==
    /\ pc = "sent"
    /\ \E dt \in 0 .. MaxDoTime, processed \in BOOLEAN :
          /\ clock' = clock + dt
          /\ applied' = IF processed /\ applied < MaxApplied
                        THEN applied + 1 ELSE applied
    /\ authHeader' = NoHeader
    /\ reqBody' = ""
    /\ DoReturns(NoRes, "transport")
    /\ UNCHANGED <<op, endpointOk, cancelAt, ctxErr, out, duration,
                   currentInterval, sleepLeft, attempts, sends, sleeps, first,
                   bodyOpen, token, tokenFetches>>
    /\ UNCHANGED concVars

\* Client.Do returns the response r after dt ticks and do handles it
\* (lines 185-230); the server may or may not have processed the request.
DoResponse ==
    /\ pc = "sent"
    /\ \E r \in Responses, dt \in 0 .. MaxDoTime, processed \in BOOLEAN :
          /\ clock' = clock + dt
          /\ applied' = IF processed /\ applied < MaxApplied
                        THEN applied + 1 ELSE applied
          /\ out' = DoOut(r, HasOut(op), out)
          /\ first' = IF first = 0 THEN r.status ELSE first
          /\ bodyOpen' = bodyOpen + 1 - DeferredCloses(r)
          /\ DoReturns(r, DoErr(r, HasOut(op)))
    /\ authHeader' = NoHeader
    /\ reqBody' = ""
    /\ UNCHANGED <<op, endpointOk, cancelAt, ctxErr, duration,
                   currentInterval, sleepLeft, attempts, sends, sleeps, token,
                   tokenFetches>>
    /\ UNCHANGED concVars

\* retry, lines 124-127: the context is done when do has returned.
RetryCtxDone ==
    /\ pc = "check"
    /\ CtxDone(ctxErr)
    /\ pc' = "done"
    /\ ret' = [res |-> res, err |-> ctxErr]
    /\ retLine' = 126
    /\ UNCHANGED <<op, endpointOk, cancelAt, ctxErr, clock, res, err, out,
                   duration, currentInterval, sleepLeft, attempts, sends,
                   sleeps, applied, first, bodyOpen, token, tokenFetches,
                   authHeader, reqBody>>
    /\ UNCHANGED concVars

\* retry, line 124: the context is not done.
RetryCtxLive ==
    /\ pc = "check"
    /\ ~CtxDone(ctxErr)
    /\ pc' = "backoff"
    /\ UNCHANGED <<op, endpointOk, cancelAt, ctxErr, clock, res, err, out,
                   duration, currentInterval, sleepLeft, attempts, sends,
                   sleeps, applied, ret, retLine, first, bodyOpen, token,
                   tokenFetches, authHeader, reqBody>>
    /\ UNCHANGED concVars

\* retry, line 129: b.NextBackOff() of the context-bound backoff, which
\* answers Stop without consulting the exponential policy once ctx is done.
RetryNextBackOff ==
    /\ pc = "backoff"
    /\ IF CtxDone(ctxErr)
       THEN /\ duration' = Stop
            /\ UNCHANGED currentInterval
       ELSE /\ \E n \in RandomInterval(currentInterval) :
                  duration' = ExpNextBackOff(clock, n, Ceiling(op))
            /\ currentInterval' = IncrementCurrentInterval(currentInterval)
    /\ pc' = "classify"
    /\ UNCHANGED <<op, endpointOk, cancelAt, ctxErr, clock, res, err, out,
                   sleepLeft, attempts, sends, sleeps, applied, ret, retLine,
                   first, bodyOpen, token, tokenFetches, authHeader, reqBody>>
    /\ UNCHANGED concVars

\* retry, lines 131-152: return, give up, or sleep and loop.
RetryDecide ==
    /\ pc = "classify"
    /\ LET d == Decision(res, err, duration) IN
          CASE d = "sleep" ->
                  /\ pc' = "sleep"
                  /\ sleepLeft' = duration
                  /\ sleeps' = Inc(sleeps)
                  /\ UNCHANGED <<ret, retLine>>
            [] d = "stop" ->
                  /\ pc' = "done"
                  /\ ret' = [res |-> NoRes, err |-> err]
                  /\ retLine' = IF res # NoRes THEN 139 ELSE 147
                  /\ UNCHANGED <<sleepLeft, sleeps>>
            [] OTHER ->
                  /\ pc' = "done"
                  /\ ret' = [res |-> res, err |-> err]
                  /\ retLine' = 152
                  /\ UNCHANGED <<sleepLeft, sleeps>>
    /\ UNCHANGED <<op, endpointOk, cancelAt, ctxErr, clock, res, err, out,
                   duration, currentInterval, attempts, sends, applied, first,
                   bodyOpen, token, tokenFetches, authHeader, reqBody>>
    /\ UNCHANGED concVars

\* time.Sleep(duration), lines 141 and 149: one tick of the sleep passes.
SleepTick ==
    /\ pc = "sleep"
    /\ sleepLeft > 0
    /\ sleepLeft' = sleepLeft - 1
    /\ clock' = clock + 1
    /\ UNCHANGED <<op, endpointOk, cancelAt, pc, ctxErr, res, err, out,
                   duration, currentInterval, attempts, sends, sleeps,
                   applied, ret, retLine, first, bodyOpen, token,
                   tokenFetches, authHeader, reqBody>>
    /\ UNCHANGED concVars

\* time.Sleep returns and the loop continues (lines 142 and 150): res and
\* err of the iteration that ends go out of scope.
SleepEnd ==
    /\ pc = "sleep"
    /\ sleepLeft <= 0
    /\ pc' = "call"
    /\ res' = NoRes
    /\ err' = "nil"
    /\ UNCHANGED <<op, endpointOk, cancelAt, ctxErr, clock, out, duration,
                   currentInterval, sleepLeft, attempts, sends, sleeps,
                   applied, ret, retLine, first, bodyOpen, token,
                   tokenFetches, authHeader, reqBody>>
    /\ UNCHANGED concVars

\* The caller cancels the context, or its deadline passes, while the call
\* is running.
Cancel ==
    /\ pc # "done"
    /\ ctxErr = "nil"
    /\ ctxErr' \in CtxErrs
    /\ cancelAt' = pc
    /\ UNCHANGED <<op, endpointOk, pc, clock, res, err, out, duration,
                   currentInterval, sleepLeft, attempts, sends, sleeps,
                   applied, ret, retLine, first, bodyOpen, token,
                   tokenFetches, authHeader, reqBody>>
    /\ UNCHANGED concVars

\* The credential supplier rotates its token between two attempts.
Rotate ==
    /\ pc = "sleep"
    /\ token = "t1"
    /\ token' = "t2"
    /\ UNCHANGED <<op, endpointOk, pc, ctxErr, clock, res, err, out, duration,
                   currentInterval, sleepLeft, attempts, sends, sleeps,
                   applied, ret, retLine, first, cancelAt, bodyOpen,
                   tokenFetches, authHeader, reqBody>>
    /\ UNCHANGED concVars

Next ==
    \/ DoBadRequest
    \/ DoTokenFail
    \/ DoSend
    \/ DoTransportError
    \/ DoResponse
    \/ RetryCtxDone
    \/ RetryCtxLive
    \/ RetryNextBackOff
    \/ RetryDecide
    \/ SleepTick
    \/ SleepEnd
    \/ Cancel
    \/ Rotate

Spec == Init /\ [][Next]_vars

\* The steps of the call itself.  The call is a running goroutine, time
\* advances and every Client.Do returns: these steps are taken when enabled.
\* The caller is never obliged to cancel.
Step ==
    \/ DoBadRequest
    \/ DoTokenFail
    \/ DoSend
    \/ DoTransportError
    \/ DoResponse
    \/ RetryCtxDone
    \/ RetryCtxLive
    \/ RetryNextBackOff
    \/ RetryDecide
    \/ SleepTick
    \/ SleepEnd

LiveSpec == Init /\ [][Next]_vars /\ WF_vars(Step)

\* ------------------------------------------------------- concurrent calls
\* Register and SendStatus called side by side on one HTTPClient.  Each call
\* runs the loop of retry on its own arguments and locals; the backoff
\* objects are kept in sessions, a call holding the index of its own in b.

\* createBackoff handing every call the one backoff made first.
NewSessionShared(made) == 1

\* createBackoff, lines 242-246: NewExponentialBackOff makes a new object at
\* every call.
NewSession(made) == Len(made) + 1

\* The backoff createBackoff returns: the ceiling set, the clock started,
\* the interval at its initial value.
FreshBackoff(o) == [maxElapsedTime |-> Ceiling(o), elapsed |-> 0,
                    currentInterval |-> InitialInterval]

\* The call is between its entry into Register or SendStatus and its return.
InFlight(i) == calls[i].pc \notin {"idle", "done"}

\* Lines 80-84 and 113-116: the call starts and creates its backoff.
ConcStart(i) ==
    /\ calls[i].pc = "idle"
    /\ \E o \in {"Register", "SendStatus"} :
          LET id == NewSession(sessions) IN
             /\ sessions' = IF id > Len(sessions)
                            THEN Append(sessions, FreshBackoff(o))
                            ELSE sessions
             /\ calls' = [calls EXCEPT ![i].op = o, ![i].pc = "call",
                                       ![i].b = id]
    /\ UNCHANGED callVars

\* retry, line 122: p.do is invoked.
ConcDo(i) ==
    /\ calls[i].pc = "call"
    /\ calls' = [calls EXCEPT ![i].pc = "sent",
                              ![i].inDo = calls[i].inDo + 1]
    /\ UNCHANGED <<sessions, callVars>>

\* retry, line 122: p.do returns.
ConcDoReturns(i) ==
    /\ calls[i].pc = "sent"
    /\ \E r \in ConcResponses :
          calls' = [calls EXCEPT
                       ![i].pc = "check",
                       ![i].inDo = calls[i].inDo - 1,
                       ![i].res = r,
                       ![i].err = IF r = NoRes THEN "transport"
                                  ELSE DoErr(r, HasOut(calls[i].op))]
    /\ UNCHANGED <<sessions, callVars>>

\* retry, lines 124-127.
ConcCheck(i) ==
    /\ calls[i].pc = "check"
    /\ calls' = [calls EXCEPT
                    ![i].pc = IF CtxDone(calls[i].ctxErr) THEN "done"
                              ELSE "backoff",
                    ![i].err = IF CtxDone(calls[i].ctxErr)
                               THEN calls[i].ctxErr ELSE calls[i].err]
    /\ UNCHANGED <<sessions, callVars>>

\* retry, line 129: b.NextBackOff() on the backoff the call holds.
ConcNextBackOff(i) ==
    /\ calls[i].pc = "backoff"
    /\ LET b == sessions[calls[i].b] IN
          IF CtxDone(calls[i].ctxErr)
          THEN /\ calls' = [calls EXCEPT ![i].pc = "classify",
                                         ![i].duration = Stop]
               /\ UNCHANGED sessions
          ELSE /\ \E n \in RandomInterval(b.currentInterval) :
                     calls' = [calls EXCEPT
                                  ![i].pc = "classify",
                                  ![i].duration =
                                      ExpNextBackOff(b.elapsed, n,
                                                     b.maxElapsedTime)]
               /\ sessions' = [sessions EXCEPT
                                  ![calls[i].b].currentInterval =
                                      IncrementCurrentInterval(
                                          b.currentInterval)]
    /\ UNCHANGED callVars

\* retry, lines 131-152.
ConcDecide(i) ==
    /\ calls[i].pc = "classify"
    /\ LET d == Decision(calls[i].res, calls[i].err, calls[i].duration) IN
          calls' = [calls EXCEPT
                       ![i].pc = IF d = "sleep" THEN "sleep" ELSE "done",
                       ![i].sleepLeft = IF d = "sleep"
                                        THEN calls[i].duration ELSE 0,
                       ![i].duration = IF d = "sleep" THEN 0
                                       ELSE calls[i].duration,
                       ![i].res = IF d = "return" THEN calls[i].res
                                  ELSE NoRes]
    /\ UNCHANGED <<sessions, callVars>>

\* time.Sleep returns (lines 142 and 150) and the loop goes round.
ConcSleepEnd(i) ==
    /\ calls[i].pc = "sleep"
    /\ calls[i].sleepLeft = 0
    /\ calls' = [calls EXCEPT ![i].pc = "call", ![i].res = NoRes,
                              ![i].err = "nil", ![i].duration = 0]
    /\ UNCHANGED <<sessions, callVars>>

\* The context of one call is cancelled.
ConcCancel(i) ==
    /\ InFlight(i)
    /\ calls[i].ctxErr = "nil"
    /\ calls' = [calls EXCEPT ![i].ctxErr = "context canceled"]
    /\ UNCHANGED <<sessions, callVars>>

\* time.Sleep(duration), lines 141 and 149: one tick of the sleep of call i
\* passes, and the elapsed time of its backoff grows with it (past the
\* ceiling NextBackOff answers Stop whatever the elapsed time is).
ConcSleepTick(i) ==
    /\ calls[i].pc = "sleep"
    /\ calls[i].sleepLeft > 0
    /\ calls' = [calls EXCEPT ![i].sleepLeft = @ - 1]
    /\ LET b == sessions[calls[i].b] IN
          sessions' = [sessions EXCEPT
                          ![calls[i].b].elapsed =
                              IF b.elapsed < b.maxElapsedTime
                              THEN b.elapsed + 1 ELSE b.elapsed]
    /\ UNCHANGED callVars

ConcInit ==
    /\ Init
    /\ op = "Register"
    /\ endpointOk

ConcNext ==
    \/ \E i \in Calls : ConcStart(i)
    \/ \E i \in Calls : ConcDo(i)
    \/ \E i \in Calls : ConcDoReturns(i)
    \/ \E i \in Calls : ConcCheck(i)
    \/ \E i \in Calls : ConcNextBackOff(i)
    \/ \E i \in Calls : ConcDecide(i)
    \/ \E i \in Calls : ConcSleepEnd(i)
    \/ \E i \in Calls : ConcCancel(i)
    \/ \E i \in Calls : ConcSleepTick(i)

ConcSpec == ConcInit /\ [][ConcNext]_vars

\* ----------------------------------------------------------------- claims
\* What retry calls a retryable outcome of do.
RetryableOutcome ==
    \/ res # NoRes /\ res.status > 501
    \/ res = NoRes /\ err # "nil"

\* Leaving the sleep means starting another attempt, and starting an attempt
\* invokes do once more.
SleepThenAttempt ==
    /\ (pc = "sleep" /\ pc' # pc) => pc' = "call"
    /\ (pc = "call" /\ pc' # pc) => attempts' = attempts + 1

\* C1: in a resilient call, a response with a status above 501, with a
\* backoff that has not answered Stop, is never returned: retry sleeps for the
\* computed interval and then makes another attempt; so a call whose first
\* response had a status above 501, and that returns with its scope live and
\* without a Stop of the backoff, has sent at least twice.
C1_RetryAbove501 ==
    /\ [](pc = "done" /\ Resilient(op) /\ first > 501 /\ ctxErr = "nil"
            /\ duration # Stop => sends >= 2)
    /\ [][(pc = "classify" /\ res # NoRes /\ res.status > 501
            /\ duration # Stop /\ pc' # pc)
          => (pc' = "sleep" /\ sleepLeft' = duration
              /\ sleeps' = sleeps + 1 /\ retLine' = 0)]_vars
    /\ [][SleepThenAttempt]_vars

C1_Witness ==
    /\ pc = "done" /\ op = "Register" /\ first = 502 /\ ctxErr = "nil"
    /\ duration # Stop /\ sends = 2 /\ sleeps = 1 /\ ret.err = "nil"

C3_CredentialErrorFatal ==
    (res = NoRes /\ err = "credential")
    => /\ pc \in {"check", "backoff", "classify", "done"}
       /\ pc = "done" => (ret.err = "credential" \/ retLine = 126)

\* C4: once the scope is cancelled during the backoff sleep, the next step
\* of the call ends the sleep and returns the cancellation reason.
C4_SleepAborted ==
    [][(pc = "sleep" /\ cancelAt = "sleep")
       => (pc' = "done" /\ ret'.err = ctxErr)]_vars

\* C5: in a resilient call, when the context is done at the moment do has
\* returned, the next step returns the cancellation reason, without another
\* attempt, send or sleep, whatever the attempt's outcome was.
C5_CancelWins ==
    [][(pc = "check" /\ ctxErr # "nil")
       => (pc' = "done" /\ ret'.err = ctxErr /\ ret'.res = res
           /\ attempts' = attempts /\ sends' = sends
           /\ sleeps' = sleeps)]_vars

C5_Witness ==
    /\ pc = "done" /\ retLine = 126 /\ ret.err = "context deadline exceeded"
    /\ res.status = 200 /\ err = "nil" /\ attempts = 1 /\ sleeps = 0

\* C6: the server processes the request of a call at most once.
C6_AtMostOnce == applied <= 1

\* C7: in a resilient call, an attempt that ended with an error and no
\* response, with a backoff that has not answered Stop, is not returned:
\* retry sleeps for the computed interval and then makes another attempt.
C7_RetryTransportError ==
    /\ [][(pc = "classify" /\ res = NoRes /\ err # "nil"
            /\ duration # Stop /\ pc' # pc)
          => (pc' = "sleep" /\ sleepLeft' = duration
              /\ sleeps' = sleeps + 1 /\ retLine' = 0)]_vars
    /\ [][SleepThenAttempt]_vars
    /\ [](pc = "done" /\ Resilient(op) /\ res = NoRes /\ err # "nil"
            => (retLine = 126 \/ (retLine = 147 /\ duration = Stop)))

C7_Witness ==
    /\ pc = "done" /\ op = "SendStatus" /\ attempts = 2 /\ sleeps = 1
    /\ sends = 2 /\ applied = 1 /\ ctxErr = "nil" /\ ret.err = "nil"
    /\ first = 200

\* The body of a 2xx response that do turns into success: none is read for
\* a 204, any readable one when no output is asked for, a JSON document
\* otherwise.
Accepted(r, hasOut) ==
    \/ r.status = 204
    \/ r.body # ReadFail /\ (~hasOut \/ r.body = JsonBody)

\* C8 as stated: a resilient call whose scope was never cancelled and whose
\* last attempt (attempt k+1) received a 2xx response returns success with
\* the output decoded from that body, after k sleeps.
C8_SuccessAfterRetries ==
    (pc = "done" /\ Resilient(op) /\ ctxErr = "nil"
       /\ res.status \in 200 .. 299)
    => /\ sleeps = attempts - 1
       /\ ret.err = "nil"
       /\ HasOut(op) => out = "42"

\* C8 as amended: a resilient call whose scope was never cancelled and whose
\* attempt k+1 received a 2xx response returns the result of that attempt
\* after exactly k+1 attempts and k sleeps: success when the response is a
\* 204 or its body is read and, where an output is asked for, decodes, with
\* the output decoded from that body (left untouched by a 204); the read or
\* decode error of that attempt otherwise.
C8_ResultOfLastAttempt ==
    (pc = "done" /\ Resilient(op) /\ ctxErr = "nil"
       /\ res.status \in 200 .. 299)
    => /\ sleeps = attempts - 1
       /\ retLine = 152
       /\ ret.res = res
       /\ IF Accepted(res, HasOut(op))
          THEN /\ ret.err = "nil"
               /\ out = IF HasOut(op) /\ res.status # 204 THEN "42" ELSE "zero"
          ELSE /\ ret.err \in {"read error", "unexpected end of JSON input",
                               "invalid character"}
               /\ out = "zero"

C8_Witness ==
    /\ pc = "done" /\ op = "Register" /\ ctxErr = "nil" /\ first = 502
    /\ attempts = 3 /\ sends = 3 /\ sleeps = 2 /\ res.status = 200
    /\ ret.err = "nil" /\ out = "42"

\* C9: every call eventually returns; a resilient call does so within as many
\* attempts as the ticks of its ceiling allow sleeps of at least one tick,
\* and never sleeps past its ceiling.
C9_Terminates ==
    /\ <>(pc = "done")
    /\ [](Resilient(op) => attempts <= Ceiling(op) + 1)
    /\ [](pc = "sleep" => clock + sleepLeft <= Ceiling(op))

C9_Witness ==
    /\ pc = "done" /\ Resilient(op) /\ ctxErr = "nil" /\ duration = Stop
    /\ retLine \in {139, 147} /\ attempts >= 2 /\ first \in {0, 502, 503}

\* C10: in a resilient call, once the backoff has answered Stop after a
\* retryable outcome, the call neither sleeps nor attempts again, and it
\* returns the error of that last attempt, which is not nil, and no response.
C10_ExhaustedReturnsLastError ==
    (Resilient(op) /\ duration = Stop /\ RetryableOutcome)
    => /\ pc \in {"classify", "done"}
       /\ pc = "done" => /\ ret = [res |-> NoRes, err |-> err]
                         /\ err # "nil"
                         /\ retLine \in {139, 147}

C10_Witness ==
    /\ pc = "done" /\ op = "Register" /\ ctxErr = "nil" /\ duration = Stop
    /\ attempts = 2 /\ sleeps = 1 /\ res.status = 502 /\ res.body = ""
    /\ ret.err = "Bad Gateway" /\ first = 502

\* C11: Heartbeat, GetTaskEvents and Acquire invoke do exactly once, never
\* sleep and never consult a backoff, whatever the outcome of the attempt,
\* and return the response and the error of that attempt unchanged.
C11_NotRetried ==
    op \in {"Heartbeat", "GetTaskEvents", "Acquire"}
    => /\ sleeps = 0 /\ duration = 0 /\ attempts <= 1 /\ sends <= 1
       /\ pc \in {"call", "sent", "done"}
       /\ pc = "done" => /\ attempts = 1
                         /\ ret = [res |-> res, err |-> err]
                         /\ retLine \in {93, 101, 109}

C11_Witness ==
    /\ pc = "done" /\ op = "Heartbeat" /\ res.status = 502 /\ res.body = ""
    /\ ret.err = "Bad Gateway" /\ attempts = 1 /\ sleeps = 0

\* C13: a step in which do ends with the credential error invokes no
\* Client.Do, and no request is in flight after it.
C13_NoSendOnCredentialError ==
    [][(attempts' # attempts /\ err' = "credential")
       => (sends' = sends /\ applied' = applied /\ pc' # "sent"
           /\ res' = NoRes)]_vars

C13_Witness ==
    /\ pc = "done" /\ op = "SendStatus" /\ attempts = 2 /\ sends = 1
    /\ err = "credential" /\ res = NoRes /\ first = 502 /\ duration = Stop

\* C14: after a 204 response do has returned nil and left the output
\* untouched, whatever the body and whether or not an output was asked for;
\* the attempt is the last one, and unless retry returns the cancellation
\* reason the call returns success.
C14_NoContent ==
    res.status = 204
    => /\ err = "nil"
       /\ out = "zero"
       /\ pc \in {"check", "backoff", "classify", "done"}
       /\ (pc = "done" /\ retLine # 126) => ret = [res |-> res, err |-> "nil"]

C14_Witness ==
    /\ pc = "done" /\ op = "Register" /\ res.status = 204
    /\ res.body = JsonBody /\ ret.err = "nil" /\ out = "zero"
    /\ attempts = 2 /\ first = 502

\* C15 as stated: for a response with a status above 299 do returns an
\* error, the body text when the body is not empty and the reason phrase of
\* the status when it is, and decodes nothing.
C15_ErrorIsBodyOrReason ==
    (res # NoRes /\ res.status > 299)
    => /\ err = IF res.body # "" THEN res.body ELSE StatusText(res.status)
       /\ err # "nil"
       /\ out = "zero"

\* C15 as amended: for a response with a status above 299 do returns an
\* error and decodes nothing; the error is the read error when reading the
\* body fails, and otherwise the body text when the body is not empty and
\* the reason phrase of the status when it is.
C15_ErrorIsBodyOrReasonIfRead ==
    (res # NoRes /\ res.status > 299)
    => /\ err = IF res.body = ReadFail THEN "read error"
                ELSE IF res.body # "" THEN res.body
                ELSE StatusText(res.status)
       /\ err # "nil"
       /\ out = "zero"

C15_Witness ==
    /\ pc = "done" /\ op = "Acquire" /\ res.status = 404 /\ res.body = ""
    /\ ret.err = "Not Found" /\ out = "zero"

\* C12 as stated: in a resilient call the credential supplier has been
\* consulted once for each attempt made, every send follows a fetch, and the
\* request in flight carries the token the supplier hands out in that
\* attempt, also after a rotation.
C12_FreshTokenEveryAttempt ==
    Resilient(op)
    => /\ tokenFetches = attempts
       /\ sends <= tokenFetches
       /\ pc = "sent" => authHeader = <<"Delegate ", token>>

\* C12 as amended: the same for a call whose request can be built; a call
\* whose request cannot be built never consults the supplier and sends
\* nothing.
C12_FreshTokenIfRequestBuilt ==
    Resilient(op)
    => /\ endpointOk => /\ tokenFetches = attempts
                        /\ sends <= tokenFetches
                        /\ pc = "sent" => authHeader = <<"Delegate ", token>>
       /\ ~endpointOk => (tokenFetches = 0 /\ sends = 0 /\ pc # "sent")

C12_Witness ==
    /\ pc = "sent" /\ op = "Register" /\ attempts = 2 /\ tokenFetches = 2
    /\ sends = 2 /\ token = "t2" /\ authHeader = <<"Delegate ", "t2">>

\* C16: no response body is open once do has returned, whatever the response
\* was: not when the next attempt starts, not when the call returns; a body
\* is never closed twice.
C16_BodyClosed == bodyOpen = 0

C16_Witness ==
    /\ pc = "done" /\ op = "SendStatus" /\ attempts = 3 /\ sends = 3
    /\ first = 502 /\ res.status = 404 /\ res.body = ReadFail
    /\ bodyOpen = 0

\* C17: a failed encoding of the input is never the error of an attempt or
\* of the call; the request of that attempt is sent with an empty body and
\* the token just fetched, and what do returns for it is the transport error
\* or what the response alone gives.
C17_EncodeFailureSwallowed ==
    /\ [](err # "encode error" /\ ret.err # "encode error")
    /\ []((pc = "sent" /\ HasIn(op) /\ reqBody = "")
          => (authHeader = <<"Delegate ", token>> /\ sends >= 1
              /\ tokenFetches >= 1))
    /\ [][(pc = "sent" /\ pc' # "sent")
          => \/ (res' = NoRes /\ err' = "transport")
             \/ (res' # NoRes /\ err' = DoErr(res', HasOut(op))
                 /\ out' = DoOut(res', HasOut(op), out))]_vars

\* The second attempt of a SendStatus whose encoding failed, in flight.
C17_Witness ==
    /\ pc = "sent" /\ op = "SendStatus" /\ reqBody = "" /\ attempts = 2
    /\ authHeader = <<"Delegate ", "t2">>

\* C19: a resilient call that was cancelled during the request, before the
\* check of line 124 or between that check and NextBackOff, and that then
\* stops retrying, returns the cancellation reason.
C19_CancelReasonReturned ==
    (pc = "done" /\ Resilient(op) /\ cancelAt \in {"sent", "check", "backoff"}
     /\ retLine \in {126, 139, 147})
    => ret.err = ctxErr

\* C20: once the context of a resilient call is done, no new time.Sleep
\* begins.
C20_NoSleepAfterCancel ==
    [][(Resilient(op) /\ CtxDone(ctxErr)) => sleeps' = sleeps]_vars

\* A step of call i: it moves on in its code, its sleep goes on, or its
\* context is cancelled.
StepOf(i) ==
    calls'[i] # calls[i]

\* C18: with calls running side by side, createBackoff has made one backoff
\* for each call that has started, every call in flight holds one that no
\* other call holds, a backoff changes only while the call holding it is in
\* flight, a call has at most one do in flight, and a step of one call
\* leaves the other calls, their backoffs and so their decisions as they
\* were.
C18_OwnSession ==
    /\ [](Len(sessions) = Cardinality({i \in Calls : calls[i].pc # "idle"}))
    /\ [](\A i \in Calls : InFlight(i) => calls[i].b \in 1 .. Len(sessions))
    /\ [](\A i, j \in Calls :
             (i # j /\ InFlight(i) /\ InFlight(j)) => calls[i].b # calls[j].b)
    /\ [](\A i \in Calls : /\ calls[i].inDo \in {0, 1}
                           /\ calls[i].inDo = 1 <=> calls[i].pc = "sent")
    /\ [][\A s \in 1 .. Len(sessions) :
             sessions'[s] # sessions[s]
             => \E i \in Calls : InFlight(i) /\ calls[i].b = s]_vars
    /\ [][\A i \in Calls :
             StepOf(i)
             => \A j \in Calls \ {i} :
                   /\ calls'[j] = calls[j]
                   /\ InFlight(j)
                      => sessions'[calls[j].b] = sessions[calls[j].b]]_vars

\* Both calls asleep, each after its own number of retries.
C18_Witness ==
    /\ calls["c1"].pc = "sleep" /\ calls["c2"].pc = "sleep"
    /\ calls["c1"].b # calls["c2"].b
    /\ sessions[calls["c1"].b].currentInterval = MaxInterval
    /\ sessions[calls["c2"].b].currentInterval = InitialInterval + 1
    /\ calls["c1"].ctxErr # "nil" /\ calls["c2"].ctxErr = "nil"

====
